---- MODULE Spec2Model ----
(***************************************************************************)
(* Amandine: a file-backed JSON document store (src/src/db.rs).            *)
(*                                                                         *)
(* The state is the Database handle (its root path) and the part of the    *)
(* filesystem the handle can reach: the directories that exist and, per    *)
(* directory, the regular files with their text.  A file's text is the     *)
(* sequence of JSON tokens serde_json writes; collection names and file    *)
(* names are sequences of characters, so that to_lowercase, push_str,      *)
(* extension and file_stem are computed and not assumed.                   *)
(***************************************************************************)
EXTENDS Integers, Sequences, FiniteSets, TLC

(* ---------------------------- bounds ----------------------------------- *)

\* at most this many records on the modelled disk, all collections together
MaxRecs == 2

\* at most this many records in the collection of the one-collection
\* specification SpecRec
MaxLen == 3

\* at most this many records on the disk of the three-collection
\* specification SpecCol
MaxColRecs == 1

\* at most this many tokens reach a file when a write fails part-way
MaxShort == 0

\* identifiers and payloads of the records callers store
Ids == {"u1", "u2", "u3"}
Vals == {"x", "y"}

\* collection names callers pass: two spellings of one name and the empty name
Names == {<< >>, <<"a">>, <<"A">>}

\* the names of the failing-filesystem specification SpecIO
IoNames == {<< >>, <<"a">>}

\* the names of the three-collection specification SpecCol
ColNames == {<< >>, <<"a">>, <<"b">>}

\* the names of the one-collection specification SpecRec
RecNames == {<<"a">>, <<"A">>}

\* paths callers pass to connect: a directory (created on first connect)
\* and a path that exists as a regular file
DbDir == "db"
PlainFile == "notes.txt"
ConnectPaths == {DbDir, PlainFile}

\* PathBuf::new(): the empty path, which resolves against the working directory
EmptyPath == ""
Cwd == "."
DirNames == {Cwd, DbDir}

(* ------------------------- record type --------------------------------- *)

\* struct TestData { uuid: String, name: String }
TestData == [uuid : Ids, name : Vals]

\* impl Data for TestData: fn uuid(&self) -> String { self.uuid.clone() }
uuid(d) == d.uuid

\* placeholder for "no record" in the call log
NoData == [uuid |-> "", name |-> ""]

(* ------------------------- strings and paths --------------------------- *)

LowerChar(c) ==
    IF c = "A" THEN "a" ELSE IF c = "B" THEN "b" ELSE c

\* str::to_lowercase
to_lowercase(s) == [i \in DOMAIN s |-> LowerChar(s[i])]

JsonExt == <<"j", "s", "o", "n">>

\* a file name that keeps the case the caller wrote
file_name_KeepCase(name) == name \o <<".">> \o JsonExt

\* name.to_lowercase() followed by push_str(".json")
file_name(name) == to_lowercase(name) \o <<".">> \o JsonExt

\* position of the last '.' in a file name, 0 if there is none
LastDot(f) ==
    IF \E i \in DOMAIN f : f[i] = "."
    THEN CHOOSE i \in DOMAIN f : f[i] = "." /\ \A j \in DOMAIN f : f[j] = "." => j <= i
    ELSE 0

\* Path::extension: the part after the last '.', none when there is no '.'
\* or when the only '.' starts the name
extension(f) ==
    IF f = <<".", ".">> \/ LastDot(f) <= 1 THEN << >>
    ELSE SubSeq(f, LastDot(f) + 1, Len(f))

\* Path::file_stem: the part before the last '.', the whole name when there
\* is no '.' or when the only '.' starts the name
file_stem(f) ==
    IF f = <<".", ".">> \/ LastDot(f) <= 1 THEN f
    ELSE SubSeq(f, 1, LastDot(f) - 1)

\* the directory self.path.join(file) lies in
RootDir(p) == IF p = EmptyPath THEN Cwd ELSE p

(* ------------------------- JSON encoding ------------------------------- *)

\* an encoding that writes the identifier into both fields
ObjText_LosesName(d) ==
    <<"{", "uuid", ":", d.uuid, ",", "name", ":", d.uuid, "}">>

\* serde_json::to_string of one TestData
ObjText(d) ==
    <<"{", "uuid", ":", d.uuid, ",", "name", ":", d.name, "}">>

RECURSIVE ItemsText(_)
ItemsText(v) ==
    IF Len(v) = 0 THEN << >>
    ELSE IF Len(v) = 1 THEN ObjText(v[1])
    ELSE ObjText(v[1]) \o <<",">> \o ItemsText(Tail(v))

\* serde_json::to_string(&Vec<T>)
to_string(v) == <<"[">> \o ItemsText(v) \o <<"]">>

\* the literal "[]" create_collection writes
EmptyArrayText == <<"[", "]">>

\* tokens in one object
ObjLen == Len(ObjText(NoData))

\* the 9 tokens at t[k..k+8] are one TestData object (fields in either order)
IsObjAt(t, k) ==
    /\ k + ObjLen - 1 <= Len(t)
    /\ t[k] = "{" /\ t[k + 2] = ":" /\ t[k + 4] = ","
    /\ t[k + 6] = ":" /\ t[k + 8] = "}"
    /\ {t[k + 1], t[k + 5]} = {"uuid", "name"}
    /\ t[k + 1] # t[k + 5]

ObjAt(t, k) ==
    IF t[k + 1] = "uuid"
    THEN [uuid |-> t[k + 3], name |-> t[k + 7]]
    ELSE [uuid |-> t[k + 7], name |-> t[k + 3]]

\* number of objects in an array text of that many tokens, -1 if none fits
ItemCount(n) ==
    IF n = 2 THEN 0
    ELSE IF n > 2 /\ (n - 2 + 1) % (ObjLen + 1) = 0 THEN (n - 2 + 1) \div (ObjLen + 1)
    ELSE -1

\* serde_json::from_str::<Vec<TestData>> succeeds on this text
CanParse(t) ==
    /\ Len(t) >= 2
    /\ t[1] = "[" /\ t[Len(t)] = "]"
    /\ ItemCount(Len(t)) >= 0
    /\ \A i \in 1..ItemCount(Len(t)) :
          /\ IsObjAt(t, 2 + (i - 1) * (ObjLen + 1))
          /\ (i > 1 => t[1 + (i - 1) * (ObjLen + 1)] = ",")

\* the value serde_json::from_str::<Vec<TestData>> returns
from_str(t) ==
    [i \in 1..ItemCount(Len(t)) |-> ObjAt(t, 2 + (i - 1) * (ObjLen + 1))]


(* ------------------------- state --------------------------------------- *)

VARIABLES
    path,   \* Database.path, the handle's root
    dirs,   \* the directories that exist
    files,  \* per directory: file name -> text of the regular files in it
    last,   \* the last call: its arguments, its result, the state before it
    calls   \* per caller: the call in flight, at which filesystem call it stands

vars == <<path, dirs, files, last, calls>>

(* ------------------------- filesystem ---------------------------------- *)

\* outcomes of one filesystem call
IoOk == "ok"
IoErr == "err"

\* Path::exists / Path::is_dir of a connect target
path_exists(ds, p) == p \in ds \/ p = PlainFile
is_dir(ds, p) == p \in ds

\* Path::exists of self.path.join(file)
file_exists(fs, p, f) == f \in DOMAIN fs[RootDir(p)]

PutFile(fs, d, f, t) ==
    [fs EXCEPT ![d] = [x \in (DOMAIN fs[d]) \cup {f} |-> IF x = f THEN t ELSE fs[d][x]]]

DropFile(fs, d, f) ==
    [fs EXCEPT ![d] = [x \in (DOMAIN fs[d]) \ {f} |-> fs[d][x]]]

\* fs::write: File::create (create or truncate) then write_all.  io is the
\* number of tokens that reach the file: all of them on success, fewer when
\* write_all fails after the truncation, -1 when File::create itself fails.
fs_write(fs, d, f, t, io) ==
    IF io < 0 THEN [ok |-> FALSE, fs |-> fs]
    ELSE IF io >= Len(t) THEN [ok |-> TRUE, fs |-> PutFile(fs, d, f, t)]
    ELSE [ok |-> FALSE, fs |-> PutFile(fs, d, f, SubSeq(t, 1, io))]

\* denied: File::create fails and nothing is written
Denied == 0 - 1

\* more tokens than any text has: a write that reaches the file in full
WriteAll == (MaxRecs + MaxLen + MaxColRecs + 2) * (ObjLen + 1)

\* every outcome of a write (a failed one leaves at most MaxShort tokens)
\* and of any other filesystem call
WriteOutcomes == (Denied..MaxShort) \cup {WriteAll}
IoOutcomes == {IoOk, IoErr}

\* outcomes of a read-modify-write cycle: of its read and of its write,
\* which happens only after a read that succeeded
Reliable == {<<IoOk, WriteAll>>}
RmwOutcomes == {<<IoErr, WriteAll>>} \cup {<<IoOk, w>> : w \in WriteOutcomes}

(* ------------------------- Database ------------------------------------ *)

Ok == "ok"
Panic == "panic"
ErrNoCollection == "Collection does not exist"
ErrReadCollection == "Could not read collection"
ErrWriteCollection == "Could not write collection"
ErrNotDir == "Path is not a directory"
ErrCreateDir == "Could not create directory"
ErrCollectionExists == "Collection already exists"
ErrCreateCollection == "Could not create collection"
ErrListCollections == "Could not list collections"
ErrDeleteCollection == "Could not delete collection"
ErrDataExists == "Data already exists"
ErrDataNotFound == "Data not found"
ErrRenameCollection == "Could not rename collection"

\* a read that takes a missing collection for an empty one
read_collection_MissingIsEmpty(fs, p, collection, rio) ==
    LET f == file_name(collection)
        d == RootDir(p)
    IN  IF ~file_exists(fs, p, f) THEN [res |-> Ok, val |-> << >>]
        ELSE IF rio = IoErr THEN [res |-> ErrReadCollection, val |-> << >>]
        ELSE IF ~CanParse(fs[d][f]) THEN [res |-> Panic, val |-> << >>]
        ELSE [res |-> Ok, val |-> from_str(fs[d][f])]

\* Database::read_collection
read_collection(fs, p, collection, rio) ==
    LET f == file_name(collection)
        d == RootDir(p)
    IN  IF ~file_exists(fs, p, f) THEN [res |-> ErrNoCollection, val |-> << >>]
        ELSE IF rio = IoErr THEN [res |-> ErrReadCollection, val |-> << >>]
        ELSE IF ~CanParse(fs[d][f]) THEN [res |-> Panic, val |-> << >>]
        ELSE [res |-> Ok, val |-> from_str(fs[d][f])]

\* Database::write_collection
write_collection(fs, p, collection, data, wio) ==
    LET f == file_name(collection)
        d == RootDir(p)
        w == fs_write(fs, d, f, to_string(data), wio)
    IN  IF ~file_exists(fs, p, f) THEN [res |-> ErrNoCollection, fs |-> fs]
        ELSE IF ~w.ok THEN [res |-> ErrWriteCollection, fs |-> w.fs]
        ELSE [res |-> Ok, fs |-> w.fs]

\* a connect that points the handle at the target before checking it
connect_SetsPathFirst(ds, p, target, io) ==
    IF path_exists(ds, target)
    THEN IF ~is_dir(ds, target)
         THEN [res |-> ErrNotDir, dirs |-> ds, path |-> target]
         ELSE [res |-> Ok, dirs |-> ds, path |-> target]
    ELSE IF io = IoErr
         THEN [res |-> ErrCreateDir, dirs |-> ds, path |-> target]
         ELSE [res |-> Ok, dirs |-> ds \cup {target}, path |-> target]

\* Database::connect
connect(ds, p, target, io) ==
    IF path_exists(ds, target)
    THEN IF ~is_dir(ds, target)
         THEN [res |-> ErrNotDir, dirs |-> ds, path |-> p]
         ELSE [res |-> Ok, dirs |-> ds, path |-> target]
    ELSE IF io = IoErr
         THEN [res |-> ErrCreateDir, dirs |-> ds, path |-> p]
         ELSE [res |-> Ok, dirs |-> ds \cup {target}, path |-> target]

\* create_collection without the existence check
create_collection_NoCheck(fs, p, name, wio) ==
    LET w == fs_write(fs, RootDir(p), file_name(name), EmptyArrayText, wio)
    IN  IF ~w.ok THEN [res |-> ErrCreateCollection, fs |-> w.fs]
        ELSE [res |-> Ok, fs |-> w.fs]

\* Database::create_collection
create_collection(fs, p, name, wio) ==
    LET f == file_name(name)
        w == fs_write(fs, RootDir(p), f, EmptyArrayText, wio)
    IN  IF file_exists(fs, p, f) THEN [res |-> ErrCollectionExists, fs |-> fs]
        ELSE IF ~w.ok THEN [res |-> ErrCreateCollection, fs |-> w.fs]
        ELSE [res |-> Ok, fs |-> w.fs]

RECURSIVE StemsOfJson(_)
\* the filter/map chain of list_collections over the directory entries:
\* keep the files whose extension is "json", return their stems
StemsOfJson(ents) ==
    IF Len(ents) = 0 THEN << >>
    ELSE IF extension(Head(ents)) = JsonExt
         THEN <<file_stem(Head(ents))>> \o StemsOfJson(Tail(ents))
         ELSE StemsOfJson(Tail(ents))

\* the orders in which read_dir can enumerate a directory
ReadDirOrders(fs, d) ==
    {o \in [1..Cardinality(DOMAIN fs[d]) -> DOMAIN fs[d]] :
        \A i, j \in DOMAIN o : i # j => o[i] # o[j]}

\* Database::list_collections; ents is the enumeration read_dir yields
list_collections(fs, p, ents, io) ==
    IF p = EmptyPath \/ io = IoErr
    THEN [res |-> ErrListCollections, out |-> << >>]
    ELSE [res |-> Ok, out |-> StemsOfJson(ents)]

\* Database::delete_collection
delete_collection(fs, p, name, io) ==
    LET f == file_name(name)
    IN  IF ~file_exists(fs, p, f) THEN [res |-> ErrNoCollection, fs |-> fs]
        ELSE IF io = IoErr THEN [res |-> ErrDeleteCollection, fs |-> fs]
        ELSE [res |-> Ok, fs |-> DropFile(fs, RootDir(p), f)]

\* index of the first record with this identifier, 0 if there is none
FirstIndex(c, id) ==
    IF \E i \in DOMAIN c : uuid(c[i]) = id
    THEN CHOOSE i \in DOMAIN c :
            uuid(c[i]) = id /\ \A j \in DOMAIN c : uuid(c[j]) = id => i <= j
    ELSE 0

\* Vec::swap_remove(i): the last element takes the place of the removed one
RemoveAt_Swap(c, i) ==
    IF i = Len(c) THEN SubSeq(c, 1, Len(c) - 1)
    ELSE [j \in 1..(Len(c) - 1) |-> IF j = i THEN c[Len(c)] ELSE c[j]]

\* Vec::remove(i)
RemoveAt(c, i) == SubSeq(c, 1, i - 1) \o SubSeq(c, i + 1, Len(c))

\* insert without the scan for an existing identifier
insert_NoDupCheck(fs, p, collection, data, rio, wio) ==
    LET r == read_collection(fs, p, collection, rio)
    IN  IF r.res # Ok THEN [res |-> r.res, fs |-> fs]
        ELSE write_collection(fs, p, collection, Append(r.val, data), wio)

\* insert that reports the duplicate only after it has overwritten the
\* stored record
insert_Overwrite(fs, p, collection, data, rio, wio) ==
    LET r == read_collection(fs, p, collection, rio)
        i == FirstIndex(r.val, uuid(data))
    IN  IF r.res # Ok THEN [res |-> r.res, fs |-> fs]
        ELSE IF i # 0
             THEN [res |-> ErrDataExists,
                   fs |-> write_collection(fs, p, collection,
                                           [r.val EXCEPT ![i] = data], wio).fs]
        ELSE write_collection(fs, p, collection, Append(r.val, data), wio)

\* insert that puts the record first instead of last
insert_Prepend(fs, p, collection, data, rio, wio) ==
    LET r == read_collection(fs, p, collection, rio)
    IN  IF r.res # Ok THEN [res |-> r.res, fs |-> fs]
        ELSE IF \E i \in DOMAIN r.val : uuid(r.val[i]) = uuid(data)
             THEN [res |-> ErrDataExists, fs |-> fs]
        ELSE write_collection(fs, p, collection, <<data>> \o r.val, wio)

\* Database::insert
insert(fs, p, collection, data, rio, wio) ==
    LET r == read_collection(fs, p, collection, rio)
        w == write_collection(fs, p, collection, Append(r.val, data), wio)
    IN  IF r.res # Ok THEN [res |-> r.res, fs |-> fs]
        ELSE IF \E i \in DOMAIN r.val : uuid(r.val[i]) = uuid(data)
             THEN [res |-> ErrDataExists, fs |-> fs]
        ELSE w

\* Database::query
query(fs, p, collection, id, rio) ==
    LET r == read_collection(fs, p, collection, rio)
        i == FirstIndex(r.val, id)
    IN  IF r.res # Ok THEN [res |-> r.res, out |-> NoData]
        ELSE IF i # 0 THEN [res |-> Ok, out |-> r.val[i]]
        ELSE [res |-> ErrDataNotFound, out |-> NoData]

\* update that inserts the record when its identifier is not stored
update_Upsert(fs, p, collection, data, rio, wio) ==
    LET r == read_collection(fs, p, collection, rio)
        i == FirstIndex(r.val, uuid(data))
    IN  IF r.res # Ok THEN [res |-> r.res, fs |-> fs]
        ELSE IF i # 0
             THEN write_collection(fs, p, collection, [r.val EXCEPT ![i] = data], wio)
        ELSE [res |-> ErrDataNotFound,
              fs |-> write_collection(fs, p, collection, Append(r.val, data), wio).fs]

\* update that removes the old record and pushes the new one
update_MoveToEnd(fs, p, collection, data, rio, wio) ==
    LET r == read_collection(fs, p, collection, rio)
        i == FirstIndex(r.val, uuid(data))
    IN  IF r.res # Ok THEN [res |-> r.res, fs |-> fs]
        ELSE IF i # 0
             THEN write_collection(fs, p, collection,
                                   Append(RemoveAt(r.val, i), data), wio)
        ELSE [res |-> ErrDataNotFound, fs |-> fs]

\* Database::update
update(fs, p, collection, data, rio, wio) ==
    LET r == read_collection(fs, p, collection, rio)
        i == FirstIndex(r.val, uuid(data))
    IN  IF r.res # Ok THEN [res |-> r.res, fs |-> fs]
        ELSE IF i # 0
             THEN write_collection(fs, p, collection, [r.val EXCEPT ![i] = data], wio)
        ELSE [res |-> ErrDataNotFound, fs |-> fs]

\* Database::delete
delete(fs, p, collection, id, rio, wio) ==
    LET r == read_collection(fs, p, collection, rio)
        i == FirstIndex(r.val, id)
    IN  IF r.res # Ok THEN [res |-> r.res, fs |-> fs]
        ELSE IF i # 0
             THEN write_collection(fs, p, collection, RemoveAt(r.val, i), wio)
        ELSE [res |-> ErrDataNotFound, fs |-> fs]

\* insert between its read and its write, without the scan for the identifier
insert_mem_NoScan(c, data) == [res |-> Ok, val |-> Append(c, data)]

\* insert between its read and its write: the scan and the push
insert_mem(c, data) ==
    IF \E i \in DOMAIN c : uuid(c[i]) = uuid(data)
    THEN [res |-> ErrDataExists, val |-> c]
    ELSE [res |-> Ok, val |-> Append(c, data)]

\* update between its read and its write: the replacement in place
update_mem(c, data) ==
    LET i == FirstIndex(c, uuid(data))
    IN  IF i # 0 THEN [res |-> Ok, val |-> [c EXCEPT ![i] = data]]
        ELSE [res |-> ErrDataNotFound, val |-> c]

\* delete between its read and its write: the removal
delete_mem(c, id) ==
    LET i == FirstIndex(c, id)
    IN  IF i # 0 THEN [res |-> Ok, val |-> RemoveAt(c, i)]
        ELSE [res |-> ErrDataNotFound, val |-> c]

\* Database::list
list(fs, p, collection, rio) ==
    LET r == read_collection(fs, p, collection, rio)
    IN  [res |-> r.res, out |-> r.val]

\* a rename that copies the collection and leaves the old file behind
rename_collection_Copy(fs, p, name, new_name, io) ==
    LET f == file_name(name)
        g == file_name(new_name)
        d == RootDir(p)
    IN  IF ~file_exists(fs, p, f) THEN [res |-> ErrNoCollection, fs |-> fs]
        ELSE IF file_exists(fs, p, g) THEN [res |-> ErrCollectionExists, fs |-> fs]
        ELSE IF io = IoErr THEN [res |-> ErrRenameCollection, fs |-> fs]
        ELSE [res |-> Ok, fs |-> PutFile(fs, d, g, fs[d][f])]

\* a rename that checks the new name before the old one
rename_collection_NewFirst(fs, p, name, new_name, io) ==
    LET f == file_name(name)
        g == file_name(new_name)
        d == RootDir(p)
    IN  IF file_exists(fs, p, g) THEN [res |-> ErrCollectionExists, fs |-> fs]
        ELSE IF ~file_exists(fs, p, f) THEN [res |-> ErrNoCollection, fs |-> fs]
        ELSE IF io = IoErr THEN [res |-> ErrRenameCollection, fs |-> fs]
        ELSE [res |-> Ok, fs |-> PutFile(DropFile(fs, d, f), d, g, fs[d][f])]

\* Database::rename_collection
rename_collection(fs, p, name, new_name, io) ==
    LET f == file_name(name)
        g == file_name(new_name)
        d == RootDir(p)
    IN  IF ~file_exists(fs, p, f) THEN [res |-> ErrNoCollection, fs |-> fs]
        ELSE IF file_exists(fs, p, g) THEN [res |-> ErrCollectionExists, fs |-> fs]
        ELSE IF io = IoErr THEN [res |-> ErrRenameCollection, fs |-> fs]
        ELSE [res |-> Ok, fs |-> PutFile(DropFile(fs, d, f), d, g, fs[d][f])]


(* ------------------------- the call log -------------------------------- *)

\* what the last call was, what it returned and the state it started from
Log(op, name, new_name, data, id, target, res, out, outs, names) ==
    [op |-> op, name |-> name, new_name |-> new_name, data |-> data, id |-> id,
     target |-> target, res |-> res, out |-> out, outs |-> outs, names |-> names,
     path0 |-> path, dirs0 |-> dirs, files0 |-> files]

\* records stored in a directory, all readable files together
RECURSIVE RecCount(_, _)
RecCount(dir, fnames) ==
    IF fnames = {} THEN 0
    ELSE LET f == CHOOSE x \in fnames : TRUE
         IN  (IF CanParse(dir[f]) THEN ItemCount(Len(dir[f])) ELSE 0)
                + RecCount(dir, fnames \ {f})

\* the disk stays within the bounds of the model
Bounded(fs, cap) ==
    RecCount(fs[Cwd], DOMAIN fs[Cwd]) + RecCount(fs[DbDir], DOMAIN fs[DbDir]) <= cap

(* ------------------------- actions ------------------------------------- *)

\* the callers that share a root in the concurrent specification SpecConc
Callers == {"c1", "c2"}

\* at most this many calls are begun in a behaviour of SpecConc
MaxCalls == 3

\* the collection the callers of SpecConc work on, and the name it is renamed to
ConcName == <<"a">>
ConcNew == <<"b">>

\* the records and identifiers the callers of SpecConc pass
ConcData == {[uuid |-> "u1", name |-> "x"], [uuid |-> "u1", name |-> "y"],
             [uuid |-> "u2", name |-> "x"]}
ConcIds == {"u1", "u2"}

\* a caller with no call in flight
NoCall ==
    [pc |-> "idle", op |-> "", data |-> NoData, id |-> "", snap |-> << >>,
     val |-> << >>, found |-> "none", gone |-> "no", latest |-> FALSE,
     res |-> Ok, n |-> 0]


\* Database::new(): an empty root path; the working directory exists
Init ==
    /\ path = EmptyPath
    /\ dirs = {Cwd}
    /\ files = [d \in DirNames |-> << >>]
    /\ last = [op |-> "new", name |-> << >>, new_name |-> << >>, data |-> NoData,
               id |-> "", target |-> "", res |-> Ok, out |-> NoData, outs |-> << >>,
               names |-> << >>, path0 |-> EmptyPath, dirs0 |-> {Cwd},
               files0 |-> [d \in DirNames |-> << >>]]
    /\ calls = [c \in Callers |-> NoCall]

Connect(ios) ==
    \E target \in ConnectPaths, io \in ios :
        \E r \in {connect(dirs, path, target, io)} :
            /\ path' = r.path
            /\ dirs' = r.dirs
            /\ last' = Log("connect", << >>, << >>, NoData, "", target, r.res,
                           NoData, << >>, << >>)
            /\ UNCHANGED <<files, calls>>

CreateCollection(names, wios) ==
    \E name \in names, wio \in wios :
        \E r \in {create_collection(files, path, name, wio)} :
            /\ files' = r.fs
            /\ last' = Log("create_collection", name, << >>, NoData, "", "", r.res,
                           NoData, << >>, << >>)
            /\ UNCHANGED <<path, dirs, calls>>

ListCollections(ios) ==
    \E ents \in ReadDirOrders(files, RootDir(path)), io \in ios :
        \E r \in {list_collections(files, path, ents, io)} :
            /\ last' = Log("list_collections", << >>, << >>, NoData, "", "", r.res,
                           NoData, << >>, r.out)
            /\ UNCHANGED <<path, dirs, files, calls>>

DeleteCollection(names, ios) ==
    \E name \in names, io \in ios :
        \E r \in {delete_collection(files, path, name, io)} :
            /\ files' = r.fs
            /\ last' = Log("delete_collection", name, << >>, NoData, "", "", r.res,
                           NoData, << >>, << >>)
            /\ UNCHANGED <<path, dirs, calls>>

RenameCollection(names, ios) ==
    \E name \in names, new_name \in names, io \in ios :
        \E r \in {rename_collection(files, path, name, new_name, io)} :
            /\ files' = r.fs
            /\ last' = Log("rename_collection", name, new_name, NoData, "", "", r.res,
                           NoData, << >>, << >>)
            /\ UNCHANGED <<path, dirs, calls>>

Insert(names, cap, ios) ==
    \E collection \in names, data \in TestData, io \in ios :
        \E r \in {insert(files, path, collection, data, io[1], io[2])} :
            /\ Bounded(r.fs, cap)
            /\ files' = r.fs
            /\ last' = Log("insert", collection, << >>, data, "", "", r.res,
                           NoData, << >>, << >>)
            /\ UNCHANGED <<path, dirs, calls>>

\* a query that takes the record it finds out of the collection
Query_Consumes(names, rios) ==
    \E collection \in names, id \in Ids, rio \in rios :
        \E r \in {query(files, path, collection, id, rio)} :
            /\ last' = Log("query", collection, << >>, NoData, id, "", r.res,
                           r.out, << >>, << >>)
            /\ files' = delete(files, path, collection, id, rio, WriteAll).fs
            /\ UNCHANGED <<path, dirs, calls>>

Query(names, rios) ==
    \E collection \in names, id \in Ids, rio \in rios :
        \E r \in {query(files, path, collection, id, rio)} :
            /\ last' = Log("query", collection, << >>, NoData, id, "", r.res,
                           r.out, << >>, << >>)
            /\ UNCHANGED <<path, dirs, files, calls>>

Update(names, ios) ==
    \E collection \in names, data \in TestData, io \in ios :
        \E r \in {update(files, path, collection, data, io[1], io[2])} :
            /\ files' = r.fs
            /\ last' = Log("update", collection, << >>, data, "", "", r.res,
                           NoData, << >>, << >>)
            /\ UNCHANGED <<path, dirs, calls>>

Delete(names, ios) ==
    \E collection \in names, id \in Ids, io \in ios :
        \E r \in {delete(files, path, collection, id, io[1], io[2])} :
            /\ files' = r.fs
            /\ last' = Log("delete", collection, << >>, NoData, id, "", r.res,
                           NoData, << >>, << >>)
            /\ UNCHANGED <<path, dirs, calls>>

List(names, rios) ==
    \E collection \in names, rio \in rios :
        \E r \in {list(files, path, collection, rio)} :
            /\ last' = Log("list", collection, << >>, NoData, "", "", r.res,
                           NoData, r.out, << >>)
            /\ UNCHANGED <<path, dirs, files, calls>>

\* the handle has been connected
Connected == path # EmptyPath

\* one caller, who connects first (as lib.rs documents and every test
\* does); every filesystem call succeeds
Next ==
    \/ Connect({IoOk})
    \/ Connected /\ CreateCollection(Names, {WriteAll})
    \/ Connected /\ ListCollections({IoOk})
    \/ Connected /\ DeleteCollection(Names, {IoOk})
    \/ Connected /\ RenameCollection(Names, {IoOk})
    \/ Connected /\ Insert(Names, MaxRecs, Reliable)
    \/ Connected /\ Query(Names, {IoOk})
    \/ Connected /\ Update(Names, Reliable)
    \/ Connected /\ Delete(Names, Reliable)
    \/ Connected /\ List(Names, {IoOk})

Spec == Init /\ [][Next]_vars

\* the same caller working on one collection, which may grow to MaxLen records
NextRec ==
    \/ Connect({IoOk})
    \/ Connected /\ CreateCollection(RecNames, {WriteAll})
    \/ Connected /\ ListCollections({IoOk})
    \/ Connected /\ DeleteCollection(RecNames, {IoOk})
    \/ Connected /\ RenameCollection(RecNames, {IoOk})
    \/ Connected /\ Insert(RecNames, MaxLen, Reliable)
    \/ Connected /\ Query(RecNames, {IoOk})
    \/ Connected /\ Update(RecNames, Reliable)
    \/ Connected /\ Delete(RecNames, Reliable)
    \/ Connected /\ List(RecNames, {IoOk})

SpecRec == Init /\ [][NextRec]_vars

\* the same caller working on up to three collections
NextCol ==
    \/ Connect({IoOk})
    \/ Connected /\ CreateCollection(ColNames, {WriteAll})
    \/ Connected /\ ListCollections({IoOk})
    \/ Connected /\ DeleteCollection(ColNames, {IoOk})
    \/ Connected /\ RenameCollection(ColNames, {IoOk})
    \/ Connected /\ Insert(ColNames, MaxColRecs, Reliable)
    \/ Connected /\ Query(ColNames, {IoOk})
    \/ Connected /\ Update(ColNames, Reliable)
    \/ Connected /\ Delete(ColNames, Reliable)
    \/ Connected /\ List(ColNames, {IoOk})

SpecCol == Init /\ [][NextCol]_vars

\* one caller, any filesystem call may fail
NextIO ==
    \/ Connect(IoOutcomes)
    \/ Connected /\ CreateCollection(IoNames, WriteOutcomes)
    \/ Connected /\ ListCollections(IoOutcomes)
    \/ Connected /\ DeleteCollection(IoNames, IoOutcomes)
    \/ Connected /\ RenameCollection(IoNames, IoOutcomes)
    \/ Connected /\ Insert(IoNames, MaxRecs, RmwOutcomes)
    \/ Connected /\ Query(IoNames, IoOutcomes)
    \/ Connected /\ Update(IoNames, RmwOutcomes)
    \/ Connected /\ Delete(IoNames, RmwOutcomes)
    \/ Connected /\ List(IoNames, IoOutcomes)

SpecIO == Init /\ [][NextIO]_vars


(* ------------------------- concurrent callers -------------------------- *)

\* Each action below is one filesystem call of an operation, together with
\* the computation in memory that follows it; a file read and a file
\* overwrite are one step each.

RecordCalls == {"insert", "update", "delete"}
ConcOps == RecordCalls \cup {"delete_collection", "rename_collection"}

ConcFile == file_name(ConcName)
ConcNewFile == file_name(ConcNew)

\* the arguments a call of this operation may carry
Arguments(op) ==
    CASE op \in {"insert", "update"} -> {[data |-> d, id |-> ""] : d \in ConcData}
      [] op = "delete" -> {[data |-> NoData, id |-> i] : i \in ConcIds}
      [] OTHER -> {[data |-> NoData, id |-> ""]}

\* the first filesystem call of an operation
FirstPc(op) ==
    CASE op \in RecordCalls -> "read_exists"
      [] op = "delete_collection" -> "dc_exists"
      [] OTHER -> "rn_old"

RECURSIVE Begun(_)
Begun(cs) ==
    IF cs = {} THEN 0
    ELSE LET c == CHOOSE x \in cs : TRUE IN calls[c].n + Begun(cs \ {c})

\* the call returns
Return(r, res) == [r EXCEPT !.pc = "done", !.res = res]

\* what the code does in memory between read_collection and write_collection
Modify(op, c, data, id) ==
    CASE op = "insert" -> insert_mem(c, data)
      [] op = "update" -> update_mem(c, data)
      [] OTHER -> delete_mem(c, id)

\* caller c has taken the collection file away: the calls of the others that
\* stand between their read and their write are marked with where they stood
Removed(c) ==
    [k \in Callers |->
        IF k = c THEN calls[k]
        ELSE IF calls[k].pc = "write_exists"
             THEN [calls[k] EXCEPT !.gone = "before_check", !.latest = FALSE]
        ELSE IF calls[k].pc = "write"
             THEN [calls[k] EXCEPT !.gone = "after_check", !.latest = FALSE]
        ELSE [calls[k] EXCEPT !.latest = FALSE]]

\* a connected root with the collection in it
InitConc ==
    /\ path = DbDir
    /\ dirs = {Cwd, DbDir}
    /\ \E c \in {<< >>, <<[uuid |-> "u1", name |-> "x"]>>} :
          files = [d \in DirNames |->
                      IF d = DbDir THEN ConcFile :> to_string(c) ELSE << >>]
    /\ last = [op |-> "new", name |-> << >>, new_name |-> << >>, data |-> NoData,
               id |-> "", target |-> "", res |-> Ok, out |-> NoData, outs |-> << >>,
               names |-> << >>, path0 |-> EmptyPath, dirs0 |-> {Cwd},
               files0 |-> [d \in DirNames |-> << >>]]
    /\ calls = [c \in Callers |-> NoCall]

\* a caller calls an operation
Begin ==
    \E c \in Callers, op \in ConcOps :
        \E a \in Arguments(op) :
            /\ calls[c].pc \in {"idle", "done"}
            /\ Begun(Callers) < MaxCalls
            /\ calls' = [calls EXCEPT ![c] =
                            [NoCall EXCEPT !.pc = FirstPc(op), !.op = op,
                                           !.data = a.data, !.id = a.id,
                                           !.n = calls[c].n + 1]]
            /\ UNCHANGED <<path, dirs, files, last>>

\* read_collection: collection_path.exists()
ReadExists ==
    \E c \in Callers :
        /\ calls[c].pc = "read_exists"
        /\ calls' = [calls EXCEPT ![c] =
                        IF file_exists(files, path, ConcFile)
                        THEN [calls[c] EXCEPT !.pc = "read"]
                        ELSE Return(calls[c], ErrNoCollection)]
        /\ UNCHANGED <<path, dirs, files, last>>

\* read_collection: fs::read_to_string and from_str, then the operation's
\* work in memory
ReadToString ==
    \E c \in Callers :
        /\ calls[c].pc = "read"
        /\ LET r == calls[c]
               t == files[RootDir(path)][ConcFile]
               m == Modify(r.op, from_str(t), r.data, r.id)
           IN  calls' = [calls EXCEPT ![c] =
                   IF ~file_exists(files, path, ConcFile)
                   THEN Return(r, ErrReadCollection)
                   ELSE IF ~CanParse(t) THEN Return(r, Panic)
                   ELSE IF m.res # Ok
                        THEN Return([r EXCEPT !.snap = from_str(t)], m.res)
                   ELSE [r EXCEPT !.pc = "write_exists", !.snap = from_str(t),
                                  !.val = m.val]]
        /\ UNCHANGED <<path, dirs, files, last>>

\* write_collection without its existence check
WriteExists_NoCheck ==
    \E c \in Callers :
        /\ calls[c].pc = "write_exists"
        /\ calls' = [calls EXCEPT ![c] = [calls[c] EXCEPT !.pc = "write"]]
        /\ UNCHANGED <<path, dirs, files, last>>

\* write_collection: collection_path.exists()
WriteExists ==
    \E c \in Callers :
        /\ calls[c].pc = "write_exists"
        /\ calls' = [calls EXCEPT ![c] =
                        IF file_exists(files, path, ConcFile)
                        THEN [calls[c] EXCEPT !.pc = "write"]
                        ELSE Return(calls[c], ErrNoCollection)]
        /\ UNCHANGED <<path, dirs, files, last>>

\* what fs::write finds in the place it writes to
Found(r) ==
    IF ~file_exists(files, path, ConcFile) THEN "missing"
    ELSE IF files[RootDir(path)][ConcFile] = to_string(r.snap) THEN "same"
    ELSE "other"

\* a write that refuses to overwrite a file that changed since it was read
FsWrite_Checked ==
    \E c \in Callers :
        /\ calls[c].pc = "write"
        /\ IF Found(calls[c]) = "same"
           THEN /\ files' = PutFile(files, RootDir(path), ConcFile,
                                    to_string(calls[c].val))
                /\ calls' = [k \in Callers |->
                                IF k = c
                                THEN Return([calls[c] EXCEPT !.found = "same",
                                                             !.latest = TRUE], Ok)
                                ELSE [calls[k] EXCEPT !.latest = FALSE]]
           ELSE /\ files' = files
                /\ calls' = [calls EXCEPT ![c] =
                                Return([calls[c] EXCEPT !.found = Found(calls[c])],
                                       ErrWriteCollection)]
        /\ UNCHANGED <<path, dirs, last>>

\* write_collection: fs::write, which creates the file when it is missing
FsWrite ==
    \E c \in Callers :
        /\ calls[c].pc = "write"
        /\ files' = PutFile(files, RootDir(path), ConcFile, to_string(calls[c].val))
        /\ calls' = [k \in Callers |->
                        IF k = c
                        THEN Return([calls[c] EXCEPT !.found = Found(calls[c]),
                                                     !.latest = TRUE], Ok)
                        ELSE [calls[k] EXCEPT !.latest = FALSE]]
        /\ UNCHANGED <<path, dirs, last>>

\* delete_collection: collection_path.exists()
DcExists ==
    \E c \in Callers :
        /\ calls[c].pc = "dc_exists"
        /\ calls' = [calls EXCEPT ![c] =
                        IF file_exists(files, path, ConcFile)
                        THEN [calls[c] EXCEPT !.pc = "dc_remove"]
                        ELSE Return(calls[c], ErrNoCollection)]
        /\ UNCHANGED <<path, dirs, files, last>>

\* delete_collection: fs::remove_file
RemoveFile ==
    \E c \in Callers :
        /\ calls[c].pc = "dc_remove"
        /\ IF file_exists(files, path, ConcFile)
           THEN /\ files' = DropFile(files, RootDir(path), ConcFile)
                /\ calls' = [Removed(c) EXCEPT ![c] = Return(calls[c], Ok)]
           ELSE /\ files' = files
                /\ calls' = [calls EXCEPT ![c] = Return(calls[c], ErrDeleteCollection)]
        /\ UNCHANGED <<path, dirs, last>>

\* rename_collection: collection_path.exists()
RnOld ==
    \E c \in Callers :
        /\ calls[c].pc = "rn_old"
        /\ calls' = [calls EXCEPT ![c] =
                        IF file_exists(files, path, ConcFile)
                        THEN [calls[c] EXCEPT !.pc = "rn_new"]
                        ELSE Return(calls[c], ErrNoCollection)]
        /\ UNCHANGED <<path, dirs, files, last>>

\* rename_collection: new_collection_path.exists()
RnNew ==
    \E c \in Callers :
        /\ calls[c].pc = "rn_new"
        /\ calls' = [calls EXCEPT ![c] =
                        IF file_exists(files, path, ConcNewFile)
                        THEN Return(calls[c], ErrCollectionExists)
                        ELSE [calls[c] EXCEPT !.pc = "rn_rename"]]
        /\ UNCHANGED <<path, dirs, files, last>>

\* rename_collection: fs::rename, which replaces a file of the new name
FsRename ==
    \E c \in Callers :
        /\ calls[c].pc = "rn_rename"
        /\ IF file_exists(files, path, ConcFile)
           THEN /\ files' = PutFile(DropFile(files, RootDir(path), ConcFile),
                                    RootDir(path), ConcNewFile,
                                    files[RootDir(path)][ConcFile])
                /\ calls' = [Removed(c) EXCEPT ![c] = Return(calls[c], Ok)]
           ELSE /\ files' = files
                /\ calls' = [calls EXCEPT ![c] = Return(calls[c], ErrRenameCollection)]
        /\ UNCHANGED <<path, dirs, last>>

\* callers whose calls interleave at the filesystem calls
NextConc ==
    \/ Begin
    \/ ReadExists
    \/ ReadToString
    \/ WriteExists
    \/ FsWrite
    \/ DcExists
    \/ RemoveFile
    \/ RnOld
    \/ RnNew
    \/ FsRename

SpecConc == InitConc /\ [][NextConc]_vars

\* the shape of the state: struct Database { path } and the disk under it
TypeOK ==
    /\ path \in {EmptyPath, DbDir}
    /\ dirs \subseteq DirNames /\ Cwd \in dirs
    /\ DOMAIN files = DirNames
    /\ \A d \in DirNames \ dirs : DOMAIN files[d] = {}
    /\ \A d \in DirNames : \A f \in DOMAIN files[d] :
          \E n \in Names \cup ColNames : f = file_name(n)
    /\ DOMAIN calls = Callers
    /\ \A c \in Callers :
          /\ calls[c].pc \in {"idle", "done", "read_exists", "read", "write_exists",
                               "write", "dc_exists", "dc_remove", "rn_old", "rn_new",
                               "rn_rename"}
          /\ calls[c].op \in ConcOps \cup {""}
          /\ calls[c].n \in 0..MaxCalls

(* ------------------------- properties ---------------------------------- *)

\* the collection of this name exists under root p
has_collection(fs, p, name) == file_exists(fs, p, file_name(name))

\* the stored sequence of an existing collection
stored(fs, p, name) == from_str(fs[RootDir(p)][file_name(name)])

\* the collection the last call named, before and after the call
ExistedBefore == has_collection(last.files0, last.path0, last.name)
Before == stored(last.files0, last.path0, last.name)
After == stored(files, path, last.name)

\* the positions of the records with this identifier
Positions(s, id) == {i \in DOMAIN s : uuid(s[i]) = id}

DistinctIds(s) == \A i, j \in DOMAIN s : i # j => uuid(s[i]) # uuid(s[j])

\* C1: in every state a single caller can reach, every existing collection
\* decodes to a sequence in which no two records have the same identifier.
C1_UniqueIds ==
    \A d \in DirNames : \A f \in DOMAIN files[d] :
        CanParse(files[d][f]) /\ DistinctIds(from_str(files[d][f]))

\* a collection of two records, right after an insert of a stored identifier
\* was turned down
C1_Witness ==
    /\ last.op = "insert" /\ last.res = ErrDataExists
    /\ Len(After) = 2

\* C2: an insert whose identifier is already stored fails with "Data already
\* exists" and writes nothing: every file is as before, and the collection
\* holds that identifier once, in the original record.
C2_DuplicateRejected ==
    (last.op = "insert" /\ ExistedBefore /\ Positions(Before, uuid(last.data)) # {})
        => /\ last.res = ErrDataExists
           /\ files = last.files0
           /\ After = Before
           /\ Cardinality(Positions(After, uuid(last.data))) = 1
           /\ \A i \in Positions(After, uuid(last.data)) : After[i] = Before[i]

\* a duplicate insert whose record differs from the stored one
C2_Witness ==
    /\ last.op = "insert" /\ ExistedBefore
    /\ \E i \in Positions(Before, uuid(last.data)) : Before[i] # last.data

\* C3: an insert of an identifier that is not stored succeeds, and a query
\* of that identifier right after it succeeds and returns the record
\* inserted, payload included.
C3_InsertQuery ==
    (last.op = "insert" /\ ExistedBefore /\ Positions(Before, uuid(last.data)) = {})
        => /\ last.res = Ok
           /\ query(files, path, last.name, uuid(last.data), IoOk)
                 = [res |-> Ok, out |-> last.data]

\* an insert into a collection that held other records
C3_Witness ==
    /\ last.op = "insert" /\ last.res = Ok
    /\ Len(Before) = 2

\* the disk after inserting the records of rs one after the other
RECURSIVE InsertAll(_, _, _, _)
InsertAll(fs, p, name, rs) ==
    IF rs = << >> THEN fs
    ELSE InsertAll(insert(fs, p, name, Head(rs), IoOk, WriteAll).fs, p, name, Tail(rs))

\* the sequences of three records with distinct identifiers
Triples == {rs \in [1..3 -> TestData] : DistinctIds(rs)}

\* C4: a successful insert appends: the stored sequence becomes the old one
\* followed by the record, and list returns it; inserts into an empty
\* collection are listed in the order they were made.
C4_InsertionOrder ==
    /\ (last.op = "insert" /\ last.res = Ok)
          => /\ After = Append(Before, last.data)
             /\ list(files, path, last.name, IoOk) = [res |-> Ok, out |-> After]
    /\ (last.op = "create_collection" /\ last.res = Ok)
          => \A rs \in Triples :
                list(InsertAll(files, path, last.name, rs), path, last.name, IoOk)
                    = [res |-> Ok, out |-> rs]

\* the third insert into a collection
C4_Witness ==
    /\ last.op = "insert" /\ last.res = Ok
    /\ Len(After) = 3

\* C5: an update whose identifier is not stored fails with "Data not found"
\* and leaves every file as it was: the record is not inserted.
C5_UpdateMissing ==
    (last.op = "update" /\ ExistedBefore /\ Positions(Before, uuid(last.data)) = {})
        => /\ last.res = ErrDataNotFound
           /\ files = last.files0
           /\ After = Before

\* an update of an absent identifier on a collection that holds records
C5_Witness ==
    /\ last.op = "update" /\ last.res = ErrDataNotFound
    /\ ExistedBefore /\ Len(Before) > 0


\* the position update and delete act on: the first record with the identifier
\* (the only one, identifiers being distinct)
Hit(id) == CHOOSE i \in Positions(Before, id) : \A j \in Positions(Before, id) : i <= j

\* C6: an update whose identifier is stored succeeds and replaces that record
\* where it stands: same length, the new record at the old position, every
\* other record as before, and a query of the identifier returns the new record.
C6_UpdateInPlace ==
    (last.op = "update" /\ ExistedBefore /\ Positions(Before, uuid(last.data)) # {})
        => /\ last.res = Ok
           /\ Len(After) = Len(Before)
           /\ After[Hit(uuid(last.data))] = last.data
           /\ \A i \in DOMAIN Before : i # Hit(uuid(last.data)) => After[i] = Before[i]
           /\ query(files, path, last.name, uuid(last.data), IoOk)
                 = [res |-> Ok, out |-> last.data]

\* an update that changes the payload of the first of three records
C6_Witness ==
    /\ last.op = "update" /\ last.res = Ok
    /\ Len(Before) = 3
    /\ uuid(Before[1]) = uuid(last.data) /\ Before[1] # last.data

\* C7: a successful delete leaves one record fewer: the records before the
\* deleted one keep their place, those after it move up by one, none changes,
\* and a query of the identifier right after it fails with "Data not found".
C7_DeleteOne ==
    (last.op = "delete" /\ last.res = Ok)
        => /\ Positions(Before, last.id) # {}
           /\ Len(After) = Len(Before) - 1
           /\ \A j \in DOMAIN After :
                 After[j] = IF j < Hit(last.id) THEN Before[j] ELSE Before[j + 1]
           /\ Positions(After, last.id) = {}
           /\ query(files, path, last.name, last.id, IoOk)
                 = [res |-> ErrDataNotFound, out |-> NoData]

\* a delete of the first of three records
C7_Witness ==
    /\ last.op = "delete" /\ last.res = Ok
    /\ Len(Before) = 3 /\ uuid(Before[1]) = last.id


\* C8: a call that returns an error leaves the disk as it was: the same
\* files with the same text, so the same collections with the same records.
C8_AllOrNothing ==
    (last.op # "new" /\ last.res \notin {Ok, Panic})
        => /\ files = last.files0
           /\ \A name \in Names :
                 has_collection(files, path, name)
                    = has_collection(last.files0, last.path0, name)

\* the number of times a name occurs in a listing
Occurrences(names, n) == Cardinality({i \in DOMAIN names : names[i] = n})

\* the lowercase names of the collections that exist
Existing == {to_lowercase(n) : n \in {m \in Names : has_collection(files, path, m)}}

\* what list_collections can return in this state
Listings ==
    {list_collections(files, path, ents, IoOk).out :
        ents \in ReadDirOrders(files, RootDir(path))}

\* C9: list_collections returns exactly the lowercase names of the existing
\* collections, each once: a name just created is listed once, a name just
\* deleted is not listed, whatever the name is.
C9_ListCollections ==
    /\ (last.op = "create_collection" /\ last.res = Ok)
          => \A l \in Listings : Occurrences(l, to_lowercase(last.name)) = 1
    /\ (last.op = "delete_collection" /\ last.res = Ok)
          => \A l \in Listings : Occurrences(l, to_lowercase(last.name)) = 0
    /\ (last.op = "list_collections" /\ last.res = Ok)
          => /\ \A n \in Existing : Occurrences(last.names, n) = 1
             /\ \A i \in DOMAIN last.names : last.names[i] \in Existing

\* C10: create_collection fails with "Collection already exists" exactly when
\* the collection exists, and then changes no file; otherwise it succeeds,
\* the new collection lists as the empty sequence and no other file changes.
C10_CreateCollection ==
    last.op = "create_collection"
        => /\ (last.res = ErrCollectionExists) = ExistedBefore
           /\ ExistedBefore => files = last.files0
           /\ ~ExistedBefore
                 => /\ last.res = Ok
                    /\ list(files, path, last.name, IoOk) = [res |-> Ok, out |-> << >>]
                    /\ \A f \in DOMAIN last.files0[RootDir(path)] :
                          /\ f \in DOMAIN files[RootDir(path)]
                          /\ files[RootDir(path)][f] = last.files0[RootDir(path)][f]

\* a create_collection turned down for a collection that holds records, named
\* in another case than the one it was made with
C10_Witness ==
    /\ last.op = "create_collection" /\ last.res = ErrCollectionExists
    /\ last.name = <<"A">>
    /\ Len(After) = 2


\* what a call returned and the disk it left
Outcome(res, fs, out, outs) == [res |-> res, fs |-> fs, out |-> out, outs |-> outs]

\* the last call made again from the state it started in, under other names
Rerun(name, new_name) ==
    LET fs == last.files0
        p == last.path0
        w(r) == Outcome(r.res, r.fs, NoData, << >>)
    IN  CASE last.op = "create_collection" ->
                w(create_collection(fs, p, name, WriteAll))
          [] last.op = "delete_collection" ->
                w(delete_collection(fs, p, name, IoOk))
          [] last.op = "rename_collection" ->
                w(rename_collection(fs, p, name, new_name, IoOk))
          [] last.op = "insert" ->
                w(insert(fs, p, name, last.data, IoOk, WriteAll))
          [] last.op = "update" ->
                w(update(fs, p, name, last.data, IoOk, WriteAll))
          [] last.op = "delete" ->
                w(delete(fs, p, name, last.id, IoOk, WriteAll))
          [] last.op = "query" ->
                Outcome(query(fs, p, name, last.id, IoOk).res, fs,
                        query(fs, p, name, last.id, IoOk).out, << >>)
          [] last.op = "list" ->
                Outcome(list(fs, p, name, IoOk).res, fs, NoData,
                        list(fs, p, name, IoOk).out)

NamedOps ==
    {"create_collection", "delete_collection", "rename_collection", "insert",
     "update", "delete", "query", "list"}

\* two names that differ in letter case only
SameFold(m, n) == to_lowercase(m) = to_lowercase(n)

\* C11: names that differ only in letter case address the same collection:
\* any call made under another spelling returns the same and leaves the same
\* disk; a record inserted under one spelling is listed under the other;
\* a create under a second spelling of an existing name and a rename of an
\* existing collection to another spelling of its own name fail with
\* "Collection already exists".
C11_CaseInsensitive ==
    /\ last.op \in NamedOps
          => \A m \in Names, m2 \in Names :
                (SameFold(m, last.name) /\ SameFold(m2, last.new_name))
                    => Rerun(m, m2) = Outcome(last.res, files, last.out, last.outs)
    /\ (last.op = "insert" /\ last.res = Ok)
          => \A m \in Names : SameFold(m, last.name)
                => /\ list(files, path, m, IoOk).res = Ok
                   /\ \E i \in DOMAIN list(files, path, m, IoOk).out :
                         list(files, path, m, IoOk).out[i] = last.data
    /\ (last.op = "create_collection"
            /\ \E m \in Names : SameFold(m, last.name)
                                  /\ has_collection(last.files0, last.path0, m))
          => last.res = ErrCollectionExists
    /\ (last.op = "rename_collection" /\ ExistedBefore
            /\ SameFold(last.name, last.new_name))
          => last.res = ErrCollectionExists

\* a rename of an existing collection to its own name in capitals
C11_Witness ==
    /\ last.op = "rename_collection" /\ last.res = ErrCollectionExists
    /\ last.name = <<"a">> /\ last.new_name = <<"A">>


\* the collection the last call named as the new name, after the call
AfterNew == stored(files, path, last.new_name)

\* C12: a successful rename moves the collection and changes nothing in it:
\* the old name is gone (record calls and delete_collection on it fail with
\* "Collection does not exist"), the new name lists what the old one listed
\* before, and every other file is as it was.
C12_RenameMoves ==
    (last.op = "rename_collection" /\ last.res = Ok)
        => /\ ~has_collection(files, path, last.name)
           /\ has_collection(files, path, last.new_name)
           /\ list(files, path, last.new_name, IoOk)
                 = list(last.files0, last.path0, last.name, IoOk)
           /\ list(files, path, last.new_name, IoOk).res = Ok
           /\ AfterNew = Before
           /\ \A d \in TestData :
                 /\ insert(files, path, last.name, d, IoOk, WriteAll).res = ErrNoCollection
                 /\ update(files, path, last.name, d, IoOk, WriteAll).res = ErrNoCollection
                 /\ delete(files, path, last.name, uuid(d), IoOk, WriteAll).res
                       = ErrNoCollection
                 /\ query(files, path, last.name, uuid(d), IoOk).res = ErrNoCollection
           /\ list(files, path, last.name, IoOk).res = ErrNoCollection
           /\ delete_collection(files, path, last.name, IoOk).res = ErrNoCollection
           /\ \A f \in DOMAIN last.files0[RootDir(path)] :
                 f # file_name(last.name)
                    => /\ f \in DOMAIN files[RootDir(path)]
                       /\ files[RootDir(path)][f] = last.files0[RootDir(path)][f]
           /\ DOMAIN files[RootDir(path)]
                 = (DOMAIN last.files0[RootDir(path)] \ {file_name(last.name)})
                      \cup {file_name(last.new_name)}

\* a rename of a collection that holds a record, next to a third collection
C12_Witness ==
    /\ last.op = "rename_collection" /\ last.res = Ok
    /\ Len(AfterNew) = 1
    /\ Cardinality(DOMAIN files[RootDir(path)]) = 2


\* the collection the last call named as the new name, before the call
BeforeNew == stored(last.files0, last.path0, last.new_name)

\* the new name of the last call named an existing collection before the call
NewExistedBefore == has_collection(last.files0, last.path0, last.new_name)

\* C13: rename_collection fails with "Collection does not exist" when the old
\* name does not exist, whether or not the new one does, and with "Collection
\* already exists" when both exist (the new name equal to the old one
\* included); a failed rename leaves every file as it was.
C13_RenameFails ==
    last.op = "rename_collection"
        => /\ ~ExistedBefore => last.res = ErrNoCollection
           /\ (ExistedBefore /\ NewExistedBefore) => last.res = ErrCollectionExists
           /\ (ExistedBefore /\ last.new_name = last.name)
                 => last.res = ErrCollectionExists
           /\ last.res \in {ErrNoCollection, ErrCollectionExists}
                 => /\ files = last.files0
                    /\ has_collection(files, path, last.name) = ExistedBefore
                    /\ has_collection(files, path, last.new_name) = NewExistedBefore
                    /\ ExistedBefore => After = Before
                    /\ NewExistedBefore => AfterNew = BeforeNew

\* a rename of a missing collection to the name of an existing one that holds
\* a record
C13_Witness ==
    /\ last.op = "rename_collection" /\ last.res = ErrNoCollection
    /\ ~ExistedBefore /\ NewExistedBefore
    /\ Len(AfterNew) = 1

\* a rename between two existing collections
C13_WitnessBoth ==
    /\ last.op = "rename_collection" /\ last.res = ErrCollectionExists
    /\ to_lowercase(last.name) # to_lowercase(last.new_name)


RecordOps == {"insert", "query", "update", "delete", "list"}

\* the collections of the handle's root
Existing0 == DOMAIN last.files0[RootDir(last.path0)]

\* C14: insert, query, update, delete and list on a collection that does not
\* exist fail with "Collection does not exist" and create nothing: every file
\* is as it was; delete_collection on such a name fails the same way.
C14_MissingCollection ==
    /\ (last.op \in RecordOps \cup {"delete_collection"} /\ ~ExistedBefore)
          => /\ last.res = ErrNoCollection
             /\ files = last.files0
             /\ DOMAIN files[RootDir(path)] = Existing0
             /\ ~has_collection(files, path, last.name)
    /\ \A n \in Names : ~has_collection(files, path, n)
          => /\ \A d \in TestData :
                   /\ insert(files, path, n, d, IoOk, WriteAll)
                         = [res |-> ErrNoCollection, fs |-> files]
                   /\ update(files, path, n, d, IoOk, WriteAll)
                         = [res |-> ErrNoCollection, fs |-> files]
                   /\ delete(files, path, n, uuid(d), IoOk, WriteAll)
                         = [res |-> ErrNoCollection, fs |-> files]
                   /\ query(files, path, n, uuid(d), IoOk).res = ErrNoCollection
             /\ list(files, path, n, IoOk).res = ErrNoCollection
             /\ delete_collection(files, path, n, IoOk)
                   = [res |-> ErrNoCollection, fs |-> files]

\* an insert into a missing collection while another collection holds a record
C14_Witness ==
    /\ last.op = "insert" /\ last.res = ErrNoCollection
    /\ Existing0 # {}
    /\ \E n \in Names : has_collection(files, path, n) /\ Len(stored(files, path, n)) = 1

\* a record call on a collection right after delete_collection or
\* rename_collection took it away
C14_WitnessGone ==
    /\ last.op \in {"delete_collection", "rename_collection"} /\ last.res = Ok
    /\ query(files, path, last.name, "u1", IoOk).res = ErrNoCollection


\* C15: query and list write nothing: after either, successful or not, the
\* handle, the directories and every file are as before the call, and the same
\* call made again returns what the first one returned.
C15_ReadOnly ==
    /\ last.op \in {"query", "list"}
          => /\ files = last.files0
             /\ path = last.path0
             /\ dirs = last.dirs0
             /\ ExistedBefore => (has_collection(files, path, last.name) /\ After = Before)
    /\ last.op = "query"
          => query(files, path, last.name, last.id, IoOk)
                = [res |-> last.res, out |-> last.out]
    /\ last.op = "list"
          => list(files, path, last.name, IoOk) = [res |-> last.res, out |-> last.outs]

\* a query that finds its record in a collection of two
C15_Witness ==
    /\ last.op = "query" /\ last.res = Ok
    /\ Len(After) = 2
    /\ last.out = After[2]

\* a query that fails to find its record, and a list of a missing collection
C15_WitnessFail ==
    \/ last.op = "query" /\ last.res = ErrDataNotFound /\ Len(After) = 1
    \/ last.op = "list" /\ last.res = ErrNoCollection


\* C16: every collection file holds text that decodes to a sequence of
\* records, so list on an existing collection never ends in a decoding fault.
C16_WellFormed ==
    /\ \A d \in DirNames : \A f \in DOMAIN files[d] : CanParse(files[d][f])
    /\ \A n \in Names : list(files, path, n, IoOk).res # Panic
    /\ (last.op = "create_collection" /\ last.res = Ok) => After = << >>


\* what the record calls and list_collections answer in a state
Observable(fs, p) ==
    [lists |-> [n \in Names |-> list(fs, p, n, IoOk)],
     names |-> {list_collections(fs, p, e, IoOk) : e \in ReadDirOrders(fs, RootDir(p))}]

\* C17: connect to an existing directory succeeds, points the handle at it and
\* leaves every file alone, and the same connect made again changes nothing;
\* connect to a path that is not a directory fails with "Path is not a
\* directory" and leaves the handle where it was, so every call answers as
\* before.
C17_ConnectIdempotent ==
    last.op = "connect"
        => /\ files = last.files0
           /\ is_dir(last.dirs0, last.target)
                 => /\ last.res = Ok
                    /\ path = last.target
                    /\ dirs = last.dirs0
           /\ last.res = Ok
                 => /\ path = last.target
                    /\ connect(dirs, path, last.target, IoOk)
                          = [res |-> Ok, dirs |-> dirs, path |-> path]
           /\ (path_exists(last.dirs0, last.target) /\ ~is_dir(last.dirs0, last.target))
                 => /\ last.res = ErrNotDir
                    /\ path = last.path0
                    /\ dirs = last.dirs0
                    /\ Observable(files, path) = Observable(last.files0, last.path0)

\* a failed connect from a handle whose root holds a collection with a record
C17_Witness ==
    /\ last.op = "connect" /\ last.res = ErrNotDir
    /\ last.path0 = DbDir
    /\ \E n \in Names : list(files, path, n, IoOk).res = Ok
                           /\ Len(list(files, path, n, IoOk).out) = 1

\* a second connect to the directory the handle already points at
C17_WitnessAgain ==
    /\ last.op = "connect" /\ last.res = Ok
    /\ last.path0 = last.target
    /\ DOMAIN files[RootDir(path)] # {}


\* the callers whose call has returned
Returned == {c \in Callers : calls[c].pc = "done"}

\* the stored sequence of the collection the callers share
Shared == stored(files, path, ConcName)

\* C18: no conflict is detected and the last overwrite wins: a mutating record
\* call that reaches its fs::write returns Ok whatever the file held at that
\* moment, and while no later write or removal has happened the collection
\* holds exactly what that caller wrote, the updates of the others that its
\* snapshot lacked being lost.
C18_LastWriteWins ==
    \A c \in Returned :
        /\ calls[c].found # "none" => calls[c].res = Ok
        /\ (calls[c].op \in RecordCalls /\ calls[c].res = Ok)
              => calls[c].found # "none"
        /\ calls[c].latest
              => /\ has_collection(files, path, ConcName)
                 /\ Shared = calls[c].val
                 /\ calls[c].val = Modify(calls[c].op, calls[c].snap, calls[c].data,
                                          calls[c].id).val

\* two inserts of different identifiers into the empty collection have both
\* returned Ok and the collection holds one record
C18_Witness ==
    /\ Returned = Callers
    /\ \A c \in Callers : /\ calls[c].op = "insert" /\ calls[c].res = Ok
                          /\ calls[c].snap = << >>
    /\ uuid(calls["c1"].data) # uuid(calls["c2"].data)
    /\ has_collection(files, path, ConcName)
    /\ Len(Shared) = 1


\* C19: whatever the interleaving of insert, update and delete (and of
\* delete_collection and rename_collection), every text a collection file
\* holds decodes to records with pairwise distinct identifiers, and so does
\* every sequence a caller is about to write.
C19_UniqueUnderRace ==
    /\ \A d \in DirNames : \A f \in DOMAIN files[d] :
          CanParse(files[d][f]) /\ DistinctIds(from_str(files[d][f]))
    /\ \A c \in Callers : DistinctIds(calls[c].snap) /\ DistinctIds(calls[c].val)

\* two inserts of the same identifier, both read from the empty collection,
\* have both returned Ok and the collection holds one record
C19_Witness ==
    /\ Returned = Callers
    /\ \A c \in Callers : /\ calls[c].op = "insert" /\ calls[c].res = Ok
                          /\ calls[c].snap = << >>
    /\ uuid(calls["c1"].data) = uuid(calls["c2"].data)
    /\ calls["c1"].data # calls["c2"].data
    /\ has_collection(files, path, ConcName)
    /\ Len(Shared) = 1

\* a record that was deleted is stored again, written back from a snapshot
\* taken before the delete
C19_WitnessResurrect ==
    \E c \in Returned, k \in Returned :
        /\ calls[c].op = "delete" /\ calls[c].res = Ok
        /\ calls[k].op = "update" /\ calls[k].res = Ok /\ calls[k].latest
        /\ calls[c].id = uuid(calls[k].data)
        /\ calls[k].found = "other"
        /\ has_collection(files, path, ConcName)
        /\ \E i \in DOMAIN Shared : uuid(Shared[i]) = calls[c].id


\* the callers whose record call has returned after another caller took the
\* collection away between that call's read and its write
Overtaken == {c \in Returned : calls[c].gone # "no"}

\* C20 as stated: a record call whose collection was deleted or renamed away
\* after its read and before its write fails with "Collection does not exist"
\* and does not create the file again.
C20_NeverBringsBack ==
    \A c \in Overtaken :
        /\ calls[c].res = ErrNoCollection
        /\ calls[c].found = "none"

\* C20 amended: a record call whose collection was deleted or renamed away
\* after its read and before write_collection tests for the file fails with
\* "Collection does not exist" and writes nothing; as long as no later call
\* has returned, the collection is still absent.
C20_GoneBeforeCheck ==
    \A c \in Overtaken :
        calls[c].gone = "before_check"
            => /\ calls[c].res = ErrNoCollection
               /\ calls[c].found = "none"
               /\ ~calls[c].latest
               /\ (\A k \in Callers : calls[k].pc \in {"idle", "done"}
                                        /\ calls[k].n = 1)
                     => ~has_collection(files, path, ConcName)

\* an insert that read the collection, lost it to delete_collection before
\* write_collection tested for it, and has returned
C20_Witness ==
    \E c \in Overtaken, k \in Returned :
        /\ calls[c].op = "insert" /\ calls[c].gone = "before_check"
        /\ calls[c].res = ErrNoCollection
        /\ calls[k].op = "delete_collection" /\ calls[k].res = Ok
        /\ ~has_collection(files, path, ConcName)

\* an insert that lost the collection between write_collection's test and its
\* fs::write, returned Ok and left the deleted collection stored again
C20_WitnessBack ==
    \E c \in Overtaken, k \in Returned :
        /\ calls[c].op = "insert" /\ calls[c].gone = "after_check"
        /\ calls[c].res = Ok /\ calls[c].found = "missing"
        /\ calls[k].op = "delete_collection" /\ calls[k].res = Ok
        /\ has_collection(files, path, ConcName)
        /\ Shared = calls[c].val

====
